---- MODULE Spec2Model ----
(***************************************************************************)
(* The Game Boy frame loop (package gb: runFrame, Run, Time), the LCD      *)
(* driver's Tick (package lcd) and the frame pacing, as a state machine.   *)
(*                                                                         *)
(* The loop thread is followed statement by statement through pc:          *)
(*   "init"     before Run/Time has taken its first time.Now()             *)
(*   "select"   at the select on ctx.Done() of Run / Time                  *)
(*   "tick"     in runFrame's for loop, before an iteration                *)
(*   "frameEnd" "draw" "sleep"  the three statements after the loop        *)
(*   "next"     back in Run / Time after runFrame returned                 *)
(*   "block"    Time's t1 / Println after 60 frames                        *)
(*   "returned" Run / Time has returned                                    *)
(*   "lcd"      (SpecLCD only) the LCD driver is called cycle after cycle  *)
(* One iteration of runFrame's for loop is one step. The cpu, mem and timer *)
(* packages it calls are only known by their calls: what they do to the    *)
(* state modelled here is an input drawn from a small set. The LCD driver  *)
(* called in the loop is LCD.Tick of package lcd, given mtick as its cycle.*)
(*                                                                         *)
(* The parts of the machine the frame loop does not touch have a variable  *)
(* and a specification each:                                               *)
(*   speed   SpecSpeed    Faster and Slower on gb.dur as an int64          *)
(*   joy     SpecJoypad   ButtonAction on the joypad nibbles and the CPU   *)
(*   pix     SpecPixel    pixel() on two bytes and a bit                   *)
(*   draw    SpecDraw     FrameData (drawTiles), pixel by pixel            *)
(*   audio   SpecAudio    Audio.EndMachineCycle, four tickClock a step     *)
(***************************************************************************)
EXTENDS Integers, Sequences, FiniteSets, TLC

\* ------------------------------------------------------------------ bounds
MaxFrames == 2
MaxTimeFrames == 61
\* vblankRaises counts no further than this
MaxRaises == 2
\* calls of Faster and Slower in a run
MaxSpeedChanges == 2
\* VRAM contents FrameData is run on
MaxVram == 2

\* --------------------------------------------------------------- constants
\* for mtick := 0; mtick < 17556; mtick++
FrameCycles == 17556
\* cycle / 114, cycle % 114 in LCD.Tick
LineCycles == 114
\* for i := 0; i < 60; i++ in Time
BlockFrames == 60
\* const frameDuration = float64(16742706), as time.Duration(duration)
frameDuration == 16742706

\* ------------------------------------------------------------ uint8 helpers
RECURSIVE BitOr(_, _)
\* a | b
BitOr(a, b) ==
    IF a = 0 THEN b
    ELSE IF b = 0 THEN a
    ELSE (IF a % 2 = 1 \/ b % 2 = 1 THEN 1 ELSE 0) + 2 * BitOr(a \div 2, b \div 2)

RECURSIVE BitAndNot(_, _)
\* a &^ b
BitAndNot(a, b) ==
    IF a = 0 THEN 0
    ELSE (IF a % 2 = 1 /\ b % 2 = 0 THEN 1 ELSE 0) + 2 * BitAndNot(a \div 2, b \div 2)

\* bit k of v
Bit(v, k) == (v \div (2 ^ k)) % 2

\* uint8(x)
Uint8(x) == x % 256

\* ------------------------------------------------------------ int64 helpers
\* An int64 (time.Duration) is kept as its two's-complement bit pattern, in
\* four 16-bit words, the least significant first.
WordBits == 16
Word == 2 ^ WordBits
HalfWord == Word \div 2

\* int64(n), for 0 <= n < 2^31
Int64(n) == <<n % Word, (n \div Word) % Word, 0, 0>>

\* The sequence of words s stands for a negative number.
Negative(s) == s[Len(s)] >= HalfWord

\* s * 2 in the width of s: a shift to the left, the top bit falling off.
Twice(s) ==
    [k \in 1 .. Len(s) |->
        (2 * s[k] + (IF k > 1 THEN s[k - 1] \div HalfWord ELSE 0)) % Word]

RECURSIVE PlusOne(_)
\* s + 1 in the width of s
PlusOne(s) ==
    IF s = <<>> THEN <<>>
    ELSE IF s[1] + 1 < Word THEN <<s[1] + 1>> \o Tail(s)
    ELSE <<0>> \o PlusOne(Tail(s))

\* s >> 1, the sign bit kept: the floor of s / 2
ShiftRight(s) ==
    [k \in 1 .. Len(s) |->
        (s[k] \div 2) + HalfWord * (IF k < Len(s) THEN s[k + 1] % 2
                                    ELSE s[k] \div HalfWord)]

\* s / 2 as Go divides: towards zero, so (s + 1) >> 1 for a negative s
HalfTowardsZero(s) == ShiftRight(IF Negative(s) THEN PlusOne(s) ELSE s)

\* s in one more word, the sign extended
Widen(s) == Append(s, IF Negative(s) THEN Word - 1 ELSE 0)

\* ------------------------------------------------------------------- pixel
RECURSIVE BitAnd(_, _)
\* a & b
BitAnd(a, b) ==
    IF a = 0 \/ b = 0 THEN 0
    ELSE (IF a % 2 = 1 /\ b % 2 = 1 THEN 1 ELSE 0) + 2 * BitAnd(a \div 2, b \div 2)

\* v >> k
ShiftRight8(v, k) == v \div (2 ^ k)

\* v << k on a uint8
ShiftLeft8(v, k) == Uint8(v * (2 ^ k))

\* Variant of bitN: the constants in the order of their names, bit0 = 1 << 0.
bitNAscending == [n \in 0 .. 7 |-> 2 ^ n]

\* const ( bit7 = 1 << iota; bit6 = 1 << iota; ...; bit0 = 1 << iota ):
\* bitN[n] is the constant named bit<n>, so bit7 = 1 and bit0 = 128.
bitN == [n \in 0 .. 7 |-> 2 ^ (7 - n)]

\* pixel(mem, memoryAddr, bit) for a = *mem.Read(memoryAddr) and
\* b = *mem.Read(memoryAddr + 1); -1 stands for the panic of the default case.
pixel(a, b, bit) ==
    CASE bit = 0 -> BitOr(ShiftRight8(BitAnd(a, bitN[0]), 7),
                          ShiftRight8(BitAnd(b, bitN[0]), 6))
      [] bit = 1 -> BitOr(ShiftRight8(BitAnd(a, bitN[1]), 6),
                          ShiftRight8(BitAnd(b, bitN[1]), 5))
      [] bit = 2 -> BitOr(ShiftRight8(BitAnd(a, bitN[2]), 5),
                          ShiftRight8(BitAnd(b, bitN[2]), 4))
      [] bit = 3 -> BitOr(ShiftRight8(BitAnd(a, bitN[3]), 4),
                          ShiftRight8(BitAnd(b, bitN[3]), 3))
      [] bit = 4 -> BitOr(ShiftRight8(BitAnd(a, bitN[4]), 3),
                          ShiftRight8(BitAnd(b, bitN[4]), 2))
      [] bit = 5 -> BitOr(ShiftRight8(BitAnd(a, bitN[5]), 2),
                          ShiftRight8(BitAnd(b, bitN[5]), 1))
      [] bit = 6 -> BitOr(ShiftRight8(BitAnd(a, bitN[6]), 1),
                          BitAnd(b, bitN[6]))
      [] bit = 7 -> BitOr(BitAnd(a, bitN[7]),
                          ShiftLeft8(BitAnd(b, bitN[7]), 1))
      [] OTHER -> -1

\* drawTiles2: pixel = (a>>uint(7-col))&1 | ((b>>uint(7-col))&1)<<1
drawTiles2Pixel(a, b, col) ==
    BitOr(BitAnd(ShiftRight8(a, 7 - col), 1),
          ShiftLeft8(BitAnd(ShiftRight8(b, 7 - col), 1), 1))

\* ---------------------------------------------------------------- drawTiles
\* for lcdX = 0; lcdX < 160; lcdX++
ScreenWidth == 160
\* for lcdY = 0; lcdY < 144; lcdY++
ScreenHeight == 144
\* data [23040]uint8
FramePixels == 23040

\* The byte at addr in the VRAM content numbered seed: the contents differ
\* in every tile map entry and every tile row.
VramRead(seed, addr) ==
    (addr * (2 * seed + 3) + (addr \div 16) * 5 + (addr \div 32) * 7
        + (addr \div 256) * 13 + seed * 11) % 256

\* highBgTileMapDisplaySelect(mem): LCDC bit 3
highBgTileMapDisplaySelect(lcdc) == Bit(lcdc, 3) = 1

\* lowTileDataSelect(mem): LCDC bit 4
lowTileDataSelect(lcdc) == Bit(lcdc, 4) = 1

\* 0x8000 + uint16(tileNumber)*16
lowTileAbsoluteAddress(tileNumber) == 32768 + tileNumber * 16

\* int8(tileNumber)
Int8(tileNumber) == IF tileNumber >= 128 THEN tileNumber - 256 ELSE tileNumber

\* uint16(0x9000 + int(tileNumber)*16), tileNumber an int8
highTileAbsoluteAddress(tileNumber) == (36864 + tileNumber * 16) % 65536

\* tileDataAddr(mem, tileX, tileY)
tileDataAddr(seed, lcdc, tileX, tileY) ==
    LET tileIndex == tileY * 32 + tileX
        tileNumberAddr == IF highBgTileMapDisplaySelect(lcdc)
                          THEN 39936 + tileIndex ELSE 38912 + tileIndex
        tileNumber == VramRead(seed, tileNumberAddr)
    IN  IF lowTileDataSelect(lcdc) THEN lowTileAbsoluteAddress(tileNumber)
        ELSE highTileAbsoluteAddress(Int8(tileNumber))

\* Variant of drawTilesIndex: the stride is the height, 144.
drawTilesIndexByHeight(lcdX, lcdY) == (lcdY * ScreenHeight + lcdX) % 65536

\* index = uint16(lcdY)*160 + uint16(lcdX)
drawTilesIndex(lcdX, lcdY) == (lcdY * ScreenWidth + lcdX) % 65536

\* The body of drawTiles' inner loop from scrX = 0 on: the pixel it stores.
\* scrX and scrY are the constants 0 (FIXME scroll register), whatever SCX
\* and SCY hold.
drawTilesPixel(seed, lcdc, lcdX, lcdY) ==
    LET scrX == 0
        scrY == 0
        vramX == Uint8(lcdX + scrX)
        vramY == Uint8(lcdY + scrY)
        tileX == vramX \div 8
        tileY == vramY \div 8
        tileAddr == tileDataAddr(seed, lcdc, tileX, tileY)
        tileOffsetX == vramX % 8
        tileOffsetY == vramY % 8
        memoryAddr == (tileAddr + tileOffsetY * 2) % 65536
    IN  pixel(VramRead(seed, memoryAddr),
              VramRead(seed, (memoryAddr + 1) % 65536), tileOffsetX)

\* renderPixel's switch: the pixels it has a case for; any other panics.
renderPixelCases ==
    {c * 16 + shade : c \in 0 .. 3, shade \in 0 .. 3}

\* -------------------------------------------------------------------- Audio
\* if a.tick >= 4194304
ClockRate == 4194304
\* period512hz = 4194304 / 512
period512hz == ClockRate \div 512
\* period44100hz = 95.108934240362812, the float64 nearest to 4194304/44100
\* = 95 + 1201/11025
period44100hzWhole == 95
period44100hzNum == 1201
period44100hzDen == 11025

\* Variant of tickClockSampleClock: the conversion without math.Round.
tickClockSampleClockTruncated(sample) ==
    period44100hzWhole * sample
        + (period44100hzNum * sample) \div period44100hzDen

\* uint64(math.Round(a.sample*period44100hz)). For the samples 0..44100 the
\* float64 product is within 1e-9 of sample * (95 + 1201/11025), which is
\* never nearer than 1/22050 to a half, so it rounds as the exact product.
tickClockSampleClock(sample) ==
    period44100hzWhole * sample
        + (2 * period44100hzNum * sample + period44100hzDen)
              \div (2 * period44100hzDen)

\* tickClock on the Audio a (tick512 has an empty body)
tickClock(a) ==
    LET r == IF a.tick >= ClockRate THEN [a EXCEPT !.tick = 0, !.sample = 0]
             ELSE a
        takes == r.tick = tickClockSampleClock(r.sample)
    IN  [r EXCEPT !.sample = IF takes THEN r.sample + 1 ELSE r.sample,
                  !.lastAt = IF takes THEN r.tick ELSE r.lastAt,
                  !.prevAt = IF takes THEN r.lastAt ELSE r.prevAt,
                  !.tick = r.tick + 1,
                  !.advanced = r.advanced + 1]

\* -------------------------------------------------------------- ButtonAction
\* ui.Button
Buttons == {"Start", "Select", "B", "A", "Down", "Up", "Left", "Right"}

\* A joypad nibble with no key held: the four active-low bits at 1.
NibbleAtRest == 15

\* v &^= mask when pressed, v |= mask when released
PressOrRelease(pressed, v, mask) ==
    IF pressed THEN BitAndNot(v, mask) ELSE BitOr(v, mask)

\* Variant of ButtonActionButtonInput: a press toggles the bit (v ^= mask).
ButtonActionButtonInputToggles(b, pressed, v) ==
    LET mask == CASE b = "Start" -> 8 [] b = "Select" -> 4 [] b = "B" -> 2
                  [] b = "A" -> 1 [] OTHER -> 0
    IN  IF pressed /\ BitAndNot(v, mask) = v THEN BitOr(v, mask)
        ELSE PressOrRelease(pressed, v, mask)

\* Variant of ButtonActionButtonInput: B takes Select's mask, 0x4.
ButtonActionButtonInputWrongMask(b, pressed, v) ==
    LET v1 == IF b = "Start" THEN PressOrRelease(pressed, v, 8)
              ELSE IF b = "Select" THEN PressOrRelease(pressed, v, 4)
              ELSE v
        v2 == IF b = "B" THEN PressOrRelease(pressed, v1, 4) ELSE v1
    IN  IF b = "A" THEN PressOrRelease(pressed, v2, 1) ELSE v2

\* What ButtonAction(b, pressed) makes of gb.memory.ButtonInput = v: the if /
\* else if on Start and Select, then the if on B, then the if on A.
ButtonActionButtonInput(b, pressed, v) ==
    LET v1 == IF b = "Start" THEN PressOrRelease(pressed, v, 8)
              ELSE IF b = "Select" THEN PressOrRelease(pressed, v, 4)
              ELSE v
        v2 == IF b = "B" THEN PressOrRelease(pressed, v1, 2) ELSE v1
    IN  IF b = "A" THEN PressOrRelease(pressed, v2, 1) ELSE v2

\* What ButtonAction(b, pressed) makes of gb.memory.DirectionInput = v: the
\* if / else if on Down and Up, then the if / else if on Left and Right.
ButtonActionDirectionInput(b, pressed, v) ==
    LET v1 == IF b = "Down" THEN PressOrRelease(pressed, v, 8)
              ELSE IF b = "Up" THEN PressOrRelease(pressed, v, 4)
              ELSE v
    IN  IF b = "Left" THEN PressOrRelease(pressed, v1, 2)
        ELSE IF b = "Right" THEN PressOrRelease(pressed, v1, 1)
        ELSE v1

\* Variant of ButtonActionStarts: the CPU is started by a release only.
ButtonActionStartsOnRelease(b, pressed) == ~pressed

\* ButtonAction calls gb.dispatch.Start() first, for every button and for a
\* press as for a release.
ButtonActionStarts(b, pressed) == TRUE

\* dispatch.Start(): a CPU stopped by STOP runs again.
DispatchStart(mode) == IF mode = "Stopped" THEN "Running" ELSE mode

\* ------------------------------------------------------------------ LCD.Tick
\* ly := uint8(cycle / 114)
TickLy(cycle) == Uint8(cycle \div LineCycles)

\* lyRemainder := cycle % 114
TickLyRemainder(cycle) == cycle % LineCycles

\* Variant of TickMode: lyRemainder <= 20 for lyRemainder < 20.
TickModeOffByOne(cycle) ==
    LET ly == TickLy(cycle)
        lyRemainder == TickLyRemainder(cycle)
    IN  IF ly = 144 THEN 1
        ELSE IF ly > 144 THEN 1
        ELSE IF lyRemainder <= 20 THEN 2
        ELSE IF lyRemainder < 63 THEN 3
        ELSE IF lyRemainder < 114 THEN 0
        ELSE -1

\* The first switch of Tick: the mode put in stat, or -1 for the panic branch.
TickMode(cycle) ==
    LET ly == TickLy(cycle)
        lyRemainder == TickLyRemainder(cycle)
    IN  IF ly = 144 THEN 1
        ELSE IF ly > 144 THEN 1
        ELSE IF lyRemainder < 20 THEN 2
        ELSE IF lyRemainder < 63 THEN 3
        ELSE IF lyRemainder < 114 THEN 0
        ELSE -1

\* Variant of TickCoincidence: the mask 0x40 for 0x44.
TickCoincidenceNoFlag(stat, ly, lyc) ==
    IF ly = Uint8(lyc) THEN BitOr(stat, 64) ELSE BitAndNot(stat, 64)

\* The coincidence step of Tick: stat |= 0x44 when ly == LYC, else stat &^= 0x44.
TickCoincidence(stat, ly, lyc) ==
    IF ly = Uint8(lyc) THEN BitOr(stat, 68) ELSE BitAndNot(stat, 68)

\* The second switch of Tick: the "interrupt" bits it sets in stat.
TickStatInterrupts(stat, cycle) ==
    LET ly == TickLy(cycle)
        lyRemainder == TickLyRemainder(cycle)
    IN  IF ly = 144 THEN BitOr(stat, 16)
        ELSE IF lyRemainder = 0 THEN BitOr(stat, 32)
        ELSE IF lyRemainder = 63 THEN BitOr(stat, 8)
        ELSE stat

\* The value Tick stores in STAT (the old STAT is never read).
TickStat(cycle, lyc) ==
    TickStatInterrupts(TickCoincidence(TickMode(cycle), TickLy(cycle), lyc), cycle)

\* What Tick does to IF: *memory.Read(mem.IF) |= 0x01 in the case ly == 144.
TickIF(cycle, if) ==
    IF TickLy(cycle) = 144 THEN BitOr(if, 1) ELSE if


\* ------------------------------------------------------------------- state
VARIABLES
    entry,      \* which loop the host called: "Run" or "Time"
    pc,         \* the loop thread's position (see the head of the module)
    mtick,      \* runFrame's loop variable
    i,          \* Time's loop variable
    frame,      \* gb.frame
    cancelled,  \* ctx.Done() is closed
    gui,        \* the gui argument is not nil
    IFreg,      \* gb.memory.IF
    STAT,       \* the byte at mem.STAT
    LY,         \* the byte at mem.LY
    LYC,        \* the byte at 0xff45
    timerInterruptRequested, \* runFrame's local
    end,        \* the local end of Run / Time, in ns since gb.start
    now,        \* the wall clock, in ns since gb.start
    dur,        \* gb.dur, in ns
    \* history, read by the properties only
    cycles,     \* loop bodies completed since the loop was entered
    published,  \* calls of gui.DrawFrame
    frameEnds,  \* calls of gb.lcd.FrameEnd
    order,      \* the subsystems advanced so far in the current loop body
    ifBeforeTimer, \* IF when gb.timer.EndMachineCycle was called
    ticked,     \* the cycle given to the last LCD Tick, -1 before the first
    lcdPanic,   \* Tick has reached its panic branch
    statSeen,   \* STAT as it stood when the last Tick began
    vblankRaises, \* Ticks of this frame that turned IF bit 0 from 0 to 1,
                \* counted up to MaxRaises
    loopStart,  \* the time.Now() taken on entering Run / Time
    durSum,     \* the sum of gb.dur over the frames started
    afterCancel, \* frames started while ctx.Done() was closed
    cancelPc,   \* where the loop was when Shutdown was called, "" before
    fast,       \* opts.Fast
    frameLimit, \* the frames the model lets the loop start
    speedChanges, \* calls of Faster and Slower so far
    speed,      \* gb.dur as the int64 it is, with the last speed change
    pix,        \* the last call of pixel(): the bytes it read at memoryAddr
                \* (a) and memoryAddr + 1 (b), its bit, its result, and
                \* what drawTiles2's expression gives for the same bytes
    draw,       \* FrameData: the registers and the VRAM content (seed) it
                \* runs on, drawTiles' loop variables lcdX and lcdY, its
                \* phase ("regs" before the program has set the registers,
                \* "draw" in the loops, "done" after the return), the last
                \* index and pixel written to lcd.data, the number of
                \* writes, whether renderPixel rejects a pixel written
    audio,      \* Audio: tick and sample, and of the last EndMachineCycle:
                \* the tick it found (tickWas), the tick++ it made
                \* (advanced); the clocks of the last two samples taken
                \* (lastAt, prevAt), -1 for none
    joy         \* the joypad nibbles of gb.memory, the CPU's run mode, and
                \* the last ButtonAction: its event, the state it found,
                \* whether it has just returned (atReturn), whether it
                \* repeated the press before it, the IF bit 4 it and the
                \* call before it raised, the latest event of every button

vars == <<entry, pc, mtick, i, frame, cancelled, gui, IFreg, STAT, LY, LYC,
          timerInterruptRequested, end, now, dur, cycles, published, frameEnds,
          order, ifBeforeTimer, ticked, lcdPanic, statSeen, vblankRaises,
          loopStart, durSum, afterCancel, cancelPc, fast, frameLimit,
          speedChanges, speed, joy, pix, draw, audio>>

loopVars == <<entry, pc, mtick, i, frame, gui>>
memVars == <<IFreg, STAT, LY, LYC>>
lcdHist == <<ticked, lcdPanic, statSeen, vblankRaises>>
timeVars == <<end, now, dur, loopStart, durSum>>
countVars == <<cycles, published, frameEnds>>
confVars == <<fast, frameLimit>>
hostVars == <<cancelPc, speedChanges>>
\* the parts of the machine the frame loop does not touch
partVars == <<speed, joy, pix, draw, audio>>

\* NewGameboy: the state after construction, for the options given.
NewGameboy(e, g, f, limit) ==
    /\ entry = e
    /\ fast = f
    /\ frameLimit = limit
    /\ cancelPc = ""
    /\ speedChanges = 0
    /\ gui = g
    /\ pc = "init"
    /\ mtick = 0
    /\ i = 0
    /\ frame = 0
    /\ cancelled = FALSE
    /\ IFreg = 0
    /\ STAT = 0
    /\ LY = 0
    /\ LYC = 0
    /\ timerInterruptRequested = FALSE
    /\ end = 0
    /\ now = 0
    /\ dur = IF f THEN 0 ELSE frameDuration
    /\ cycles = 0
    /\ published = 0
    /\ frameEnds = 0
    /\ order = <<>>
    /\ ifBeforeTimer = 0
    /\ ticked = -1
    /\ lcdPanic = FALSE
    /\ statSeen = 0
    /\ vblankRaises = 0
    /\ loopStart = 0
    /\ durSum = 0
    /\ afterCancel = 0
    /\ speed = [dur |-> Int64(IF f THEN 0 ELSE frameDuration),
                was |-> Int64(0), op |-> "none"]
    /\ joy = [ButtonInput |-> NibbleAtRest, DirectionInput |-> NibbleAtRest,
              mode |-> "Running", b |-> "", pressed |-> FALSE,
              wasButtonInput |-> NibbleAtRest,
              wasDirectionInput |-> NibbleAtRest, wasMode |-> "Running",
              repeat |-> FALSE, raised |-> 0, raisedBefore |-> 0,
              atReturn |-> FALSE,
              last |-> [x \in Buttons |-> "none"]]
    /\ pix = [called |-> FALSE, a |-> 0, b |-> 0, bit |-> 0, pixel |-> 0,
              inline |-> 0]
    /\ draw = [phase |-> "regs", SCX |-> 0, SCY |-> 0, LCDC |-> 0, seed |-> 0,
               lcdX |-> 0, lcdY |-> 0, index |-> -1, pixel |-> 0,
               writes |-> 0, rejected |-> FALSE]
    /\ audio = [tick |-> 0, sample |-> 0, tickWas |-> 0, advanced |-> 0,
                lastAt |-> -1, prevAt |-> -1]

\* --------------------------------------------------------------- Run, Time
\* end := time.Now()
LoopEnter ==
    /\ pc = "init"
    /\ pc' = "select"
    /\ end' = now
    /\ loopStart' = now
    /\ UNCHANGED <<entry, mtick, i, frame, gui, cancelled, memVars,
                   timerInterruptRequested, now, dur, durSum, countVars, order,
                   ifBeforeTimer, lcdHist, afterCancel, confVars, hostVars, partVars>>

\* case <-ctx.Done(): return
LoopReturn ==
    /\ pc = "select"
    /\ cancelled
    /\ pc' = "returned"
    /\ UNCHANGED <<entry, mtick, i, frame, gui, cancelled, memVars,
                   timerInterruptRequested, timeVars, countVars, order,
                   ifBeforeTimer, lcdHist, afterCancel, confVars, hostVars, partVars>>

\* Variant of SelectsDefault: the default branch may be taken at any time.
SelectsDefaultAlways == TRUE

\* The select takes its default branch only when ctx.Done() is not ready.
SelectsDefault == ~cancelled

\* Variant of NextDeadline: time.Now().Add(gb.dur).
NextDeadlineFromNow(e, n, d) == n + d

\* end.Add(gb.dur), for end = e, time.Now() = n and gb.dur = d
NextDeadline(e, n, d) == e + d

\* default: end = end.Add(gb.dur); gb.runFrame(gui, end), up to the for's mtick := 0
LoopStartFrame ==
    /\ pc = "select"
    /\ SelectsDefault
    /\ frame < frameLimit
    /\ end' = NextDeadline(end, now, dur)
    /\ durSum' = durSum + dur
    /\ mtick' = 0
    /\ pc' = "tick"
    /\ vblankRaises' = 0
    /\ afterCancel' = IF cancelled THEN afterCancel + 1 ELSE afterCancel
    /\ UNCHANGED <<entry, i, frame, gui, cancelled, memVars,
                   timerInterruptRequested, now, dur, loopStart, countVars, order,
                   ifBeforeTimer, ticked, lcdPanic, statSeen, confVars, hostVars, partVars>>

\* Back from runFrame: Run loops; Time counts i up to 60.
LoopNext ==
    /\ pc = "next"
    /\ IF entry = "Time"
       THEN /\ i' = i + 1
            /\ pc' = IF i + 1 < BlockFrames THEN "select" ELSE "block"
       ELSE /\ i' = i
            /\ pc' = "select"
    /\ UNCHANGED <<entry, mtick, frame, gui, cancelled, memVars,
                   timerInterruptRequested, timeVars, countVars, order,
                   ifBeforeTimer, lcdHist, afterCancel, confVars, hostVars, partVars>>

\* t1 := time.Now(); fmt.Println(...); then the outer for again: t0, i := 0
TimeBlock ==
    /\ pc = "block"
    /\ i' = 0
    /\ pc' = "select"
    /\ UNCHANGED <<entry, mtick, frame, gui, cancelled, memVars,
                   timerInterruptRequested, timeVars, countVars, order,
                   ifBeforeTimer, lcdHist, afterCancel, confVars, hostVars, partVars>>

\* Shutdown: gb.cancel() closes ctx.Done(); the host may call it at any moment.
Shutdown ==
    /\ ~cancelled
    /\ cancelled' = TRUE
    /\ cancelPc' = pc
    /\ UNCHANGED <<loopVars, memVars, timerInterruptRequested, timeVars,
                   countVars, order, ifBeforeTimer, lcdHist, afterCancel,
                   confVars, speedChanges, partVars>>

\* Faster: gb.dur /= 2
Faster ==
    /\ speedChanges < MaxSpeedChanges
    /\ dur' = dur \div 2
    /\ speedChanges' = speedChanges + 1
    /\ UNCHANGED <<loopVars, cancelled, memVars, timerInterruptRequested, end,
                   now, loopStart, durSum, countVars, order, ifBeforeTimer,
                   lcdHist, afterCancel, confVars, cancelPc, partVars>>

\* Slower: gb.dur *= 2
Slower ==
    /\ speedChanges < MaxSpeedChanges
    /\ dur' = dur * 2
    /\ speedChanges' = speedChanges + 1
    /\ UNCHANGED <<loopVars, cancelled, memVars, timerInterruptRequested, end,
                   now, loopStart, durSum, countVars, order, ifBeforeTimer,
                   lcdHist, afterCancel, confVars, cancelPc, partVars>>

\* ------------------------------------------------------------------ runFrame
\* What one CPU machine cycle may do to the registers modelled here: nothing,
\* acknowledge the VBlank or the timer interrupt, or enable the LYC interrupt.
CpuIF(op, if) ==
    CASE op = "ackVBlank" -> BitAndNot(if, 1)
      [] op = "ackTimer" -> BitAndNot(if, 4)
      [] OTHER -> if

CpuSTAT(op, stat) ==
    CASE op = "enableLYC" -> BitOr(stat, 64)
      [] OTHER -> stat

\* The calls of one loop body, in the order runFrame makes them.
runFrameCalls == <<"CPU", "Memory", "LCD", "Timer">>

\* Variant of runFrameTimerIF: the wrong mask, 0x02 for 0x04.
runFrameTimerIFWrongMask(req, if) == IF req THEN BitOr(if, 2) ELSE if

\* if timerInterruptRequested { gb.memory.IF |= 0x04 }
runFrameTimerIF(req, if) == IF req THEN BitOr(if, 4) ELSE if

\* Variant of runFrameLoopTest: off by one, mtick <= 17556.
runFrameLoopTestOffByOne(m) == m <= FrameCycles

\* Variant of runFrameLoopTest: the loop also ends when ctx.Done() is closed.
runFrameLoopTestOrDone(m) == m < FrameCycles /\ ~cancelled

\* mtick < 17556
runFrameLoopTest(m) == m < FrameCycles

\* One iteration of runFrame's for loop, the mtick++ and the test included:
\*   gb.dispatch.ExecuteMachineCycle()      the CPU does op
\*   gb.memory.ExecuteMachineCycle()        (DMA: none of the state modelled)
\*   gb.lcd.EndMachineCycle()               the LCD driver for cycle mtick
\*   timerInterruptRequested := gb.timer.EndMachineCycle()   answers req
\*   if timerInterruptRequested { gb.memory.IF |= 0x04 }
runFrameTick(op, req) ==
    /\ pc = "tick"
    /\ LET ifCpu == CpuIF(op, IFreg)
           statCpu == CpuSTAT(op, STAT)
           ifLcd == TickIF(mtick, ifCpu)
       IN  /\ statSeen' = statCpu
           /\ STAT' = TickStat(mtick, LYC)
           /\ LY' = TickLy(mtick)
           /\ lcdPanic' = (lcdPanic \/ TickMode(mtick) = -1)
           /\ ticked' = mtick
           /\ vblankRaises' = IF /\ Bit(ifCpu, 0) = 0
                                 /\ Bit(ifLcd, 0) = 1
                                 /\ vblankRaises < MaxRaises
                              THEN vblankRaises + 1 ELSE vblankRaises
           /\ timerInterruptRequested' = req
           /\ ifBeforeTimer' = ifLcd
           /\ IFreg' = runFrameTimerIF(req, ifLcd)
    /\ order' = runFrameCalls
    /\ mtick' = mtick + 1
    /\ cycles' = cycles + 1
    /\ pc' = IF runFrameLoopTest(mtick + 1) THEN "tick" ELSE "frameEnd"
    /\ UNCHANGED <<entry, i, frame, gui, cancelled, LYC, timeVars, published,
                   frameEnds, afterCancel, confVars, hostVars, partVars>>

\* gb.lcd.FrameEnd()
LcdFrameEnd ==
    /\ pc = "frameEnd"
    /\ frameEnds' = frameEnds + 1
    /\ pc' = "draw"
    /\ UNCHANGED <<entry, mtick, i, frame, gui, cancelled, memVars,
                   timerInterruptRequested, timeVars, cycles, published, order,
                   ifBeforeTimer, lcdHist, afterCancel, confVars, hostVars, partVars>>

\* The frames one call of runFrame hands to the GUI.
runFrameDraws == IF gui THEN 1 ELSE 0

\* if gui != nil { gui.DrawFrame(gb.lcd.Frame) }
runFrameDraw ==
    /\ pc = "draw"
    /\ published' = published + runFrameDraws
    /\ pc' = "sleep"
    /\ UNCHANGED <<entry, mtick, i, frame, gui, cancelled, memVars,
                   timerInterruptRequested, timeVars, cycles, frameEnds, order,
                   ifBeforeTimer, lcdHist, afterCancel, confVars, hostVars, partVars>>

\* time.Sleep(time.Until(end)); gb.frame++, the frame having taken e ns so far
runFrameSleep(e) ==
    /\ pc = "sleep"
    /\ now' = IF end > now + e THEN end ELSE now + e
    /\ frame' = frame + 1
    /\ pc' = "next"
    /\ UNCHANGED <<entry, mtick, i, gui, cancelled, memVars,
                   timerInterruptRequested, end, dur, loopStart, durSum,
                   countVars, order, ifBeforeTimer, lcdHist, afterCancel, confVars, hostVars, partVars>>

\* runFrame, for the CPU behaviours ops and the timer answers reqs.
runFrame(ops, reqs, took) ==
    \/ \E op \in ops, req \in reqs : runFrameTick(op, req)
    \/ LcdFrameEnd
    \/ runFrameDraw
    \/ \E e \in took : runFrameSleep(e)

\* ------------------------------------------------------------- Spec: Run
\* Run with a GUI or without; the CPU may acknowledge the timer interrupt in
\* any machine cycle and the timer may request one in any machine cycle.
CpuOps == {"none", "ackTimer"}

Init == \E g \in BOOLEAN : NewGameboy("Run", g, FALSE, MaxFrames)

Next ==
    \/ LoopEnter
    \/ LoopStartFrame
    \/ runFrame(CpuOps, BOOLEAN, {0})
    \/ LoopNext

Spec == Init /\ [][Next]_vars

\* ---------------------------------------------------------- SpecIrq: Run
\* Run with a quiet timer; the CPU may acknowledge the VBlank interrupt or set
\* STAT bit 6 (the LYC interrupt enable) in any machine cycle.
CpuOpsIrq == {"none", "ackVBlank", "enableLYC"}

InitIrq == NewGameboy("Run", TRUE, FALSE, MaxFrames)

NextIrq ==
    \/ LoopEnter
    \/ LoopStartFrame
    \/ runFrame(CpuOpsIrq, {FALSE}, {0})
    \/ LoopNext

SpecIrq == InitIrq /\ [][NextIrq]_vars


\* -------------------------------------------------------- SpecLCD: Tick
\* LCD.Tick alone, called for the cycles 0, 1, ..., 17555 of frame after frame,
\* after the program has written any byte to LYC (0xff45).
WriteLYC ==
    /\ pc = "init"
    /\ \E v \in 0 .. 255 : LYC' = v
    /\ pc' = "lcd"
    /\ UNCHANGED <<entry, mtick, i, frame, gui, cancelled, IFreg, STAT, LY,
                   timerInterruptRequested, timeVars, countVars, order,
                   ifBeforeTimer, lcdHist, afterCancel, confVars, hostVars, partVars>>

TickCycle ==
    /\ pc = "lcd"
    /\ STAT' = TickStat(mtick, LYC)
    /\ LY' = TickLy(mtick)
    /\ IFreg' = TickIF(mtick, IFreg)
    /\ lcdPanic' = (lcdPanic \/ TickMode(mtick) = -1)
    /\ ticked' = mtick
    /\ statSeen' = STAT
    /\ mtick' = (mtick + 1) % FrameCycles
    /\ UNCHANGED <<entry, pc, i, frame, gui, cancelled, LYC,
                   timerInterruptRequested, timeVars, countVars, order,
                   ifBeforeTimer, vblankRaises, afterCancel, confVars, hostVars, partVars>>

InitLCD == NewGameboy("Run", TRUE, FALSE, MaxFrames)

NextLCD == WriteLYC \/ TickCycle

SpecLCD == InitLCD /\ [][NextLCD]_vars

\* ------------------------------------------------- SpecLoop: Run and Time
\* Run or Time with a GUI and quiet devices; the host may call Shutdown at any
\* moment. Time is followed for more than one block of 60 frames.
InitLoop ==
    \/ NewGameboy("Run", TRUE, FALSE, MaxFrames)
    \/ NewGameboy("Time", TRUE, FALSE, MaxTimeFrames)

\* The statements of the loop thread.
LoopThread ==
    \/ LoopEnter
    \/ LoopReturn
    \/ LoopStartFrame
    \/ runFrame({"none"}, {FALSE}, {0})
    \/ LoopNext

NextLoop == LoopThread \/ TimeBlock \/ Shutdown

SpecLoop == InitLoop /\ [][NextLoop]_vars

\* SpecCancel: the same loops followed for MaxFrames frames (Time does not
\* reach the end of a block), the loop thread always getting to run.
InitCancel ==
    \E e \in {"Run", "Time"} : NewGameboy(e, TRUE, FALSE, MaxFrames)

NextCancel == LoopThread \/ Shutdown

SpecCancel == InitCancel /\ [][NextCancel]_vars /\ WF_vars(LoopThread)

\* ---------------------------------------------------------- SpecPace: Run
\* Run, paced or Fast, each frame taking one of three times to emulate, the
\* host calling Faster and Slower at any moment.
FrameTook == {0, 10000000, 20000000}

InitPace == \E f \in BOOLEAN : NewGameboy("Run", TRUE, f, MaxFrames)

NextPace ==
    \/ LoopEnter
    \/ LoopStartFrame
    \/ runFrame({"none"}, {FALSE}, FrameTook)
    \/ LoopNext
    \/ Faster
    \/ Slower

SpecPace == InitPace /\ [][NextPace]_vars

\* ------------------------------------------------- SpecSpeed: Faster, Slower
\* The host calls Faster and Slower in any order and any number of times, on a
\* machine built paced or Fast; gb.dur is followed as the int64 it is.
\* Faster: gb.dur /= 2
FasterInt64 ==
    /\ speed' = [dur |-> HalfTowardsZero(speed.dur), was |-> speed.dur,
                 op |-> "Faster"]
    /\ UNCHANGED <<loopVars, cancelled, memVars, timerInterruptRequested,
                   timeVars, countVars, order, ifBeforeTimer, lcdHist,
                   afterCancel, confVars, hostVars, joy, pix, draw, audio>>

\* Slower: gb.dur *= 2
SlowerInt64 ==
    /\ speed' = [dur |-> Twice(speed.dur), was |-> speed.dur, op |-> "Slower"]
    /\ UNCHANGED <<loopVars, cancelled, memVars, timerInterruptRequested,
                   timeVars, countVars, order, ifBeforeTimer, lcdHist,
                   afterCancel, confVars, hostVars, joy, pix, draw, audio>>

InitSpeed == \E f \in BOOLEAN : NewGameboy("Run", TRUE, f, MaxFrames)

NextSpeed == FasterInt64 \/ SlowerInt64

SpecSpeed == InitSpeed /\ [][NextSpeed]_vars

\* ------------------------------------------------ SpecJoypad: ButtonAction
\* The UI delivers key presses and releases of the eight buttons in any
\* order; between them the CPU may execute STOP.
ButtonAction(b, pressed) ==
    /\ UNCHANGED memVars
    /\ joy' = [ButtonInput |-> ButtonActionButtonInput(b, pressed, joy.ButtonInput),
               DirectionInput |->
                   ButtonActionDirectionInput(b, pressed, joy.DirectionInput),
               mode |-> IF ButtonActionStarts(b, pressed)
                        THEN DispatchStart(joy.mode) ELSE joy.mode,
               b |-> b, pressed |-> pressed,
               wasButtonInput |-> joy.ButtonInput,
               wasDirectionInput |-> joy.DirectionInput,
               wasMode |-> joy.mode,
               repeat |-> (pressed /\ joy.pressed /\ joy.b = b),
               raised |-> IF Bit(IFreg, 4) = 0 /\ Bit(IFreg', 4) = 1
                          THEN 1 ELSE 0,
               raisedBefore |-> joy.raised,
               atReturn |-> TRUE,
               last |-> [joy.last EXCEPT
                            ![b] = IF pressed THEN "pressed" ELSE "released"]]
    /\ UNCHANGED <<loopVars, cancelled, timerInterruptRequested,
                   timeVars, countVars, order, ifBeforeTimer, lcdHist,
                   afterCancel, confVars, hostVars, speed, pix, draw, audio>>

\* The CPU executes STOP: the run mode becomes Stopped.
CpuStop ==
    /\ joy.mode = "Running"
    /\ joy' = [joy EXCEPT !.mode = "Stopped", !.atReturn = FALSE]
    /\ UNCHANGED <<loopVars, cancelled, memVars, timerInterruptRequested,
                   timeVars, countVars, order, ifBeforeTimer, lcdHist,
                   afterCancel, confVars, hostVars, speed, pix, draw, audio>>

InitJoypad == NewGameboy("Run", TRUE, FALSE, MaxFrames)

NextJoypad ==
    \/ \E b \in Buttons, pressed \in BOOLEAN : ButtonAction(b, pressed)
    \/ CpuStop

SpecJoypad == InitJoypad /\ [][NextJoypad]_vars

\* ------------------------------------------------------- SpecPixel: pixel
\* pixel() called once, for any two bytes in memory and any of the bits 0..7
\* that drawTiles passes (vramX % 8).
pixelCall(a, b, bit) ==
    /\ pix' = [called |-> TRUE, a |-> a, b |-> b, bit |-> bit,
               pixel |-> pixel(a, b, bit), inline |-> drawTiles2Pixel(a, b, bit)]
    /\ UNCHANGED <<loopVars, cancelled, memVars, timerInterruptRequested,
                   timeVars, countVars, order, ifBeforeTimer, lcdHist,
                   afterCancel, confVars, hostVars, speed, joy, draw, audio>>

InitPixel == NewGameboy("Run", TRUE, FALSE, MaxFrames)

NextPixel ==
    /\ ~pix.called
    /\ \E a \in 0 .. 255, b \in 0 .. 255, bit \in 0 .. 7 : pixelCall(a, b, bit)

SpecPixel == InitPixel /\ [][NextPixel]_vars

\* ---------------------------------------------------- SpecDraw: FrameData
\* The program sets SCX, SCY, LCDC and the VRAM content, which then stay as
\* they are; FrameData (drawTiles) is followed pixel by pixel, one iteration
\* of the inner loop a step, and the frame it returns goes to renderFrame.
ScrollXs == {0, 3}
ScrollYs == {0, 250}
\* LCDC with the LCD and the background on, for both tile maps (bit 3) and
\* both tile data areas (bit 4)
LcdcValues == {129, 137, 145, 153}

WriteVideo ==
    /\ draw.phase = "regs"
    /\ \E scx \in ScrollXs, scy \in ScrollYs, lcdc \in LcdcValues,
          seed \in 0 .. MaxVram - 1 :
          draw' = [draw EXCEPT !.phase = "draw", !.SCX = scx, !.SCY = scy,
                               !.LCDC = lcdc, !.seed = seed]
    /\ UNCHANGED <<loopVars, cancelled, memVars, timerInterruptRequested,
                   timeVars, countVars, order, ifBeforeTimer, lcdHist,
                   afterCancel, confVars, hostVars, speed, joy, pix, audio>>

drawTilesStep ==
    /\ draw.phase = "draw"
    /\ LET p == drawTilesPixel(draw.seed, draw.LCDC, draw.lcdX, draw.lcdY)
           endOfLine == ~(draw.lcdX + 1 < ScreenWidth)
           lcdY == IF endOfLine THEN draw.lcdY + 1 ELSE draw.lcdY
       IN  draw' = [draw EXCEPT
                       !.index = drawTilesIndex(draw.lcdX, draw.lcdY),
                       !.pixel = p,
                       !.writes = draw.writes + 1,
                       !.rejected = (draw.rejected \/ p \notin renderPixelCases),
                       !.lcdX = IF endOfLine THEN 0 ELSE draw.lcdX + 1,
                       !.lcdY = lcdY,
                       !.phase = IF lcdY < ScreenHeight THEN "draw" ELSE "done"]
    /\ UNCHANGED <<loopVars, cancelled, memVars, timerInterruptRequested,
                   timeVars, countVars, order, ifBeforeTimer, lcdHist,
                   afterCancel, confVars, hostVars, speed, joy, pix, audio>>

InitDraw == NewGameboy("Run", TRUE, FALSE, MaxFrames)

NextDraw == WriteVideo \/ drawTilesStep

SpecDraw == InitDraw /\ [][NextDraw]_vars

\* ------------------------------------------- SpecAudio: EndMachineCycle
\* Audio.EndMachineCycle called machine cycle after machine cycle: four
\* tickClock each.
EndMachineCycle ==
    /\ audio' = tickClock(tickClock(tickClock(tickClock(
                     [audio EXCEPT !.tickWas = audio.tick, !.advanced = 0]))))
    /\ UNCHANGED <<loopVars, cancelled, memVars, timerInterruptRequested,
                   timeVars, countVars, order, ifBeforeTimer, lcdHist,
                   afterCancel, confVars, hostVars, speed, joy, pix, draw>>

InitAudio == NewGameboy("Run", TRUE, FALSE, MaxFrames)

NextAudio == EndMachineCycle

SpecAudio == InitAudio /\ [][NextAudio]_vars

\* ------------------------------------------------------------------ claims
\* The loop is between two frames.
AtFrameBoundary == pc \in {"select", "next", "block", "returned"}

\* C1: every call of runFrame runs exactly 17,556 loop bodies, then ends the
\* frame, then hands exactly one frame to the GUI (none without a GUI), then
\* counts the frame: between frames, after n frames, 17,556*n loop bodies have
\* run, FrameEnd was called n times and n frames were published; a frame is
\* ended and published only after all 17,556 cycles of it, and no call runs
\* more than 17,556 loop bodies.
C1_FrameAccounting ==
    /\ AtFrameBoundary =>
          /\ cycles = 17556 * frame
          /\ frameEnds = frame
          /\ published = IF gui THEN frame ELSE 0
    /\ 17556 * frameEnds <= cycles
    /\ published <= frameEnds
    /\ frame <= frameEnds
    /\ frameEnds <= frame + 1
    /\ cycles <= 17556 * (frame + 1)
    /\ (pc = "tick" => cycles < 17556 * (frame + 1))

\* Two frames completed with a GUI: 35,112 cycles, two frames published.
C1_Witness ==
    /\ pc = "next"
    /\ gui
    /\ frame = 2
    /\ cycles = 35112
    /\ published = 2

\* C2: once a loop body has run, the subsystems it advanced are the five, in
\* the order CPU, Memory, LCD, Timer, Audio.
C2_FiveSubsystemsInOrder ==
    order # <<>> => order = <<"CPU", "Memory", "LCD", "Timer", "Audio">>

\* C5: after every loop body, up to the next one (the first of the next frame
\* included): when the timer requested an interrupt, IF is IF as the timer
\* call found it with bit 2 set; when it did not, IF is as the timer call
\* found it.
C5_TimerInterruptInSameTick ==
    ticked >= 0 =>
        /\ Bit(IFreg, 2) = (IF timerInterruptRequested THEN 1
                            ELSE Bit(ifBeforeTimer, 2))
        /\ \A k \in (0 .. 7) \ {2} : Bit(IFreg, k) = Bit(ifBeforeTimer, k)

\* The timer requested an interrupt in the last cycle of the first frame, bit 2
\* was clear before, and the loop is about to start the next frame.
C5_Witness ==
    /\ pc = "select"
    /\ frame = 1
    /\ ticked = 17555
    /\ timerInterruptRequested
    /\ Bit(ifBeforeTimer, 2) = 0
    /\ Bit(IFreg, 2) = 1


\* C3: after Tick for cycle c, with ly = c/114 and lx = 4*(c mod 114): the
\* panic branch was not reached; the low two bits of STAT are 2 when ly < 144
\* and lx < 80, 3 when ly < 144 and 80 <= lx < 252, 0 when ly < 144 and
\* lx >= 252, 1 when 144 <= ly < 154; LY holds ly, which is in 0..153.
C3_ModeMatchesPosition ==
    ticked >= 0 =>
        LET ly == ticked \div 114
            lx == 4 * (ticked % 114)
        IN  /\ ~lcdPanic
            /\ ly < 154
            /\ STAT % 4 = (IF ly < 144 /\ lx < 80 THEN 2
                           ELSE IF ly < 144 /\ lx < 252 THEN 3
                           ELSE IF ly < 144 THEN 0
                           ELSE 1)
            /\ LY = ly
            /\ LY \in 0 .. 153

\* The last cycle of mode 2 on the last visible line: ly = 143, lx = 76.
C3_Witness ==
    /\ ticked = 143 * 114 + 19
    /\ STAT % 4 = 2
    /\ LY = 143
    /\ LYC = 200

\* C4: in a frame the LCD turns IF bit 0 from 0 to 1 at most once (so not
\* again after the CPU cleared it during line 144).
C4_VBlankRaisedOncePerFrame == vblankRaises <= 1

\* C6: after the Tick of the first cycle of a scanline, if the CPU had STAT bit
\* 6 set when the Tick began and LY equals LYC, IF bit 1 is set.
C6_LycInterruptRaised ==
    (/\ ticked >= 0
     /\ ticked % 114 = 0
     /\ Bit(statSeen, 6) = 1
     /\ LY = LYC) => Bit(IFreg, 1) = 1

\* C7: after Tick for cycle c, bit 2 of STAT is 1 exactly when c/114 equals
\* LYC, for every byte in LYC.
C7_CoincidenceFlag ==
    ticked >= 0 => (Bit(STAT, 2) = 1 <=> ticked \div 114 = LYC)

\* Coincidence on the last line of the frame, in its last cycle.
C7_Witness ==
    /\ ticked = 17555
    /\ LYC = 153
    /\ Bit(STAT, 2) = 1


\* C8: when Run or Time has returned, the machine cycles executed are a
\* multiple of 17,556 and every frame begun was completed: ended, published
\* and counted.
C8_ReturnsAtFrameBoundary ==
    pc = "returned" =>
        /\ cycles % 17556 = 0
        /\ mtick \in {0, 17556}
        /\ cycles = 17556 * frame
        /\ frameEnds = frame
        /\ published = frame

\* Time returned after a Shutdown that came while a frame was being emulated.
C8_Witness ==
    /\ entry = "Time"
    /\ pc = "returned"
    /\ cancelPc = "tick"
    /\ cycles = 17556

\* C9: no frame is started once ctx.Done() is closed, and a closed ctx.Done()
\* is always followed by the return of the loop.
C9_CancelStopsLoop ==
    /\ [](afterCancel = 0)
    /\ (cancelled ~> pc = "returned")

\* Run returned after a Shutdown that came during the second frame's sleep.
C9_Witness ==
    /\ entry = "Run"
    /\ pc = "returned"
    /\ cancelPc = "sleep"
    /\ frame = 2
    /\ afterCancel = 0

\* Frames started so far.
FramesStarted == IF AtFrameBoundary \/ pc = "init" THEN frame ELSE frame + 1

\* C10: the deadline is the loop's start instant plus the sum of the durations
\* in force when each frame was started, whatever the frames took; with no
\* call of Faster or Slower each of these durations is 16,742,706 ns, or 0 when
\* Fast.
C10_DeadlineAccumulates ==
    pc # "init" =>
        /\ end = loopStart + durSum
        /\ speedChanges = 0 =>
              end = loopStart + FramesStarted * (IF fast THEN 0 ELSE 16742706)

\* Two frames, the second started at half the duration and finished late: the
\* deadline is still start + 16,742,706 + 8,371,353.
C10_Witness ==
    /\ pc = "next"
    /\ frame = 2
    /\ durSum = 16742706 + 8371353
    /\ end = loopStart + 25114059
    /\ now > end

\* C11: Faster replaces the frame duration d by d/2 (the integer half, never
\* below 0) and Slower replaces it by 2*d, whatever calls came before.
C11_HalvesAndDoubles ==
    /\ speed.op = "Faster" =>
           /\ ~Negative(speed.dur)
           /\ Widen(speed.was) \in
                  {Twice(Widen(speed.dur)), PlusOne(Twice(Widen(speed.dur)))}
    /\ speed.op = "Slower" => Widen(speed.dur) = Twice(Widen(speed.was))

\* The nibble and the bit the claims give a button.
InButtonNibble == {"Start", "Select", "B", "A"}
ClaimedBit ==
    [x \in Buttons |->
        CASE x \in {"Start", "Down"} -> 3 [] x \in {"Select", "Up"} -> 2
          [] x \in {"B", "Left"} -> 1 [] OTHER -> 0]
BitOfButton(x, buttonInput, directionInput) ==
    Bit(IF x \in InButtonNibble THEN buttonInput ELSE directionInput,
        ClaimedBit[x])

\* C12: a press clears and a release sets the button's own active-low bit
\* (Start, Select, B, A: bits 3..0 of the button nibble; Down, Up, Left,
\* Right: bits 3..0 of the direction nibble) and changes no other bit of
\* either nibble; so a button that has had an event has its bit at 0 exactly
\* when its latest event was a press; a release raises no joypad interrupt.
C12_OwnBitOnly ==
    /\ joy.b # "" =>
           /\ BitOfButton(joy.b, joy.ButtonInput, joy.DirectionInput)
                  = IF joy.pressed THEN 0 ELSE 1
           /\ \A x \in Buttons \ {joy.b} :
                  BitOfButton(x, joy.ButtonInput, joy.DirectionInput)
                      = BitOfButton(x, joy.wasButtonInput, joy.wasDirectionInput)
           /\ joy.ButtonInput \in 0 .. 15 /\ joy.DirectionInput \in 0 .. 15
           /\ ~joy.pressed => joy.raised = 0
    /\ \A x \in Buttons :
           joy.last[x] # "none" =>
               (BitOfButton(x, joy.ButtonInput, joy.DirectionInput) = 0
                   <=> joy.last[x] = "pressed")

\* B is released while Start is held and Up has been pressed and released.
C12_Witness ==
    /\ joy.b = "B" /\ ~joy.pressed /\ joy.last["Start"] = "pressed"
    /\ joy.last["Up"] = "released" /\ Bit(joy.wasButtonInput, 1) = 0

\* C13: the same button-pressed event delivered twice leaves both nibbles as
\* they were after the first, and the two calls together raise the joypad
\* interrupt (IF bit 4) at most once.
C13_PressIdempotent ==
    joy.repeat =>
        /\ joy.ButtonInput = joy.wasButtonInput
        /\ joy.DirectionInput = joy.wasDirectionInput
        /\ joy.raised + joy.raisedBefore <= 1

\* Select is pressed twice in a row while Left is held.
C13_Witness ==
    joy.repeat /\ joy.b = "Select" /\ joy.last["Left"] = "pressed"

\* C14: when a key press of any of the eight buttons is delivered to a CPU in
\* Stopped mode, the CPU is no longer Stopped when ButtonAction returns.
C14_PressLeavesStop ==
    (joy.atReturn /\ joy.pressed /\ joy.wasMode = "Stopped")
        => joy.mode # "Stopped"

\* A press of Down found the CPU stopped.
C14_Witness ==
    /\ joy.atReturn /\ joy.pressed /\ joy.b = "Down"
    /\ joy.wasMode = "Stopped" /\ joy.mode = "Running"

\* C16: for all bytes a (at memoryAddr) and b (at memoryAddr + 1) and every
\* bit in 0..7, pixel() returns ((b >> (7-bit)) & 1) * 2 + ((a >> (7-bit)) & 1),
\* which is also the value of drawTiles2's expression.
C16_PixelValue ==
    pix.called =>
        /\ pix.pixel = Bit(pix.b, 7 - pix.bit) * 2 + Bit(pix.a, 7 - pix.bit)
        /\ pix.pixel = pix.inline

\* Bit 2 of a tile row whose low and high planes differ there: colour 2.
C16_Witness ==
    /\ pix.called /\ pix.a = 195 /\ pix.b = 60 /\ pix.bit = 2
    /\ pix.pixel = 2

\* The background pixel at (bx, by) of the 256x256 tile layer: the tile
\* number at map[by/8*32 + bx/8], the two bytes of its row by%8, bit 7-(bx%8)
\* of each, the second byte's bit the high one.
BackgroundPixel(seed, lcdc, bx, by) ==
    LET map == IF Bit(lcdc, 3) = 1 THEN 39936 ELSE 38912
        idx == VramRead(seed, map + (by \div 8) * 32 + bx \div 8)
        tile == IF Bit(lcdc, 4) = 1 THEN 32768 + idx * 16
                ELSE 36864 + (IF idx < 128 THEN idx ELSE idx - 256) * 16
        row == tile + (by % 8) * 2
    IN  2 * Bit(VramRead(seed, row + 1), 7 - (bx % 8))
          + Bit(VramRead(seed, row), 7 - (bx % 8))

\* C15: with SCX, SCY and LCDC constant for the frame, the pixel FrameData
\* stores at index ly*160 + x is the background pixel at bx = (x+SCX) & 0xFF,
\* by = (ly+SCY) & 0xFF, for every SCX and SCY.
C15_FrameIsScrolledBackground ==
    draw.writes > 0 =>
        LET x == draw.index % ScreenWidth
            ly == draw.index \div ScreenWidth
        IN  draw.pixel = BackgroundPixel(draw.seed, draw.LCDC,
                                         (x + draw.SCX) % 256,
                                         (ly + draw.SCY) % 256)

\* C19: FrameData writes each of the 23,040 indices lcdY*160 + lcdX exactly
\* once (in the order 0, 1, ..., 23039), each time a value in 0..3, so
\* renderPixel has a case for every pixel of the frame and never panics.
C19_EveryIndexOnceInRange ==
    /\ draw.writes = draw.lcdY * ScreenWidth + draw.lcdX
    /\ draw.writes > 0 =>
           /\ draw.index = draw.writes - 1
           /\ draw.pixel \in 0 .. 3
    /\ ~draw.rejected
    /\ draw.phase = "done" <=> draw.writes = FramePixels

\* FrameData has returned, the last index written being 23039.
C19_Witness ==
    /\ draw.phase = "done" /\ draw.index = FramePixels - 1
    /\ draw.writes = FramePixels /\ draw.seed = 1 /\ draw.LCDC = 137

\* samples per window of 4,194,304 clocks
SampleRate == 44100

\* round(k * 4194304 / 44100)
SampleClock(k) ==
    (ClockRate \div SampleRate) * k
        + (2 * (ClockRate % SampleRate) * k + SampleRate) \div (2 * SampleRate)

\* C17: each EndMachineCycle advances the audio clock by exactly 4 clocks; in
\* every window of 4,194,304 clocks from clock 0 a sample is taken exactly
\* 44,100 times, the k-th at clock round(k*4194304/44100), never twice in one
\* clock; the clock counter never exceeds 4,194,304 nor the sample counter
\* 44,100.
C17_SampleClocks ==
    /\ audio.tick <= ClockRate /\ audio.sample <= SampleRate
    /\ audio.tick > 0 =>
           /\ audio.advanced = 4
           /\ audio.tick = (audio.tickWas % ClockRate) + 4
           /\ audio.sample > 0
           /\ audio.lastAt = SampleClock(audio.sample - 1)
           /\ audio.sample > 1 => audio.lastAt > audio.prevAt
           /\ audio.sample < SampleRate => SampleClock(audio.sample) >= audio.tick
    /\ audio.tick = ClockRate => audio.sample = SampleRate

\* Sample 5 has been taken at clock 476, 5 * 4194304 / 44100 = 475.54 rounded
\* up, in the machine cycle of the clocks 476..479.
C17_Witness ==
    /\ audio.tick = 480 /\ audio.tickWas = 476 /\ audio.advanced = 4
    /\ audio.sample = 6 /\ audio.lastAt = 476 /\ audio.prevAt = 380

\* C18: after any calls of Faster and Slower, from either initial duration,
\* the frame duration is never negative (the deadline never moves backwards).
C18_DurationNeverNegative == ~Negative(speed.dur)

====
